---- MODULE Spec2Model ----
(***************************************************************************)
(* A model of smothiki/sa-builder: the git-push build trigger.             *)
(*                                                                         *)
(*   - pkg/git (src/unnamed/part_001, lines 1-218): Receive,               *)
(*     cleanRepoName, createRepo;                                          *)
(*   - pkg/sshd/sshd.go: AuthKey, compareKeys, Configure;                  *)
(*   - pkg/gitreceive/run.go (and its older copy, part_001 lines 220-271): *)
(*     readLine, Run;                                                      *)
(*   - pkg/gitreceive/storage/slug_builder_info.go: NewSlugBuilderInfo.    *)
(*                                                                         *)
(* Strings are sequences of one-character strings, so that every string    *)
(* operation of the code (Contains, Replace, TrimSuffix, TrimPrefix,       *)
(* Split, HasPrefix, Sprintf) is computed on characters.                   *)
(*                                                                         *)
(* Each part of the program has its own specification over its own         *)
(* variables; the variables of the other parts stay at their idle values.  *)
(***************************************************************************)
EXTENDS Integers, Sequences, FiniteSets, TLC

VARIABLES
    \* ---- Receive: name sanitization (part_001 lines 68-77)
    repoName,       \* the requested repository name (param "repoName")
    repo,           \* Receive's local `repo`
    repoPath,       \* Receive's local `repoPath`, as cleaned path components
    recvPc,         \* position in Receive
    sanitized,      \* the names cleanRepoName has returned, oldest first
    \* ---- createRepo (part_001 lines 156-192)
    createLock,     \* holder of the process-wide mutex, or NoThread
    fs0,            \* path -> what was at the path when the process started
    fs,             \* path -> what os.Stat finds at the path now
    inited,         \* path -> git init --bare has completed successfully there
    crPc,           \* thread -> position in createRepo
    crPath,         \* thread -> the repoPath argument of its call
    crBegan,        \* thread -> how many returns there had been when it called
    crCalls,        \* calls of createRepo started so far
    mkdirRuns,      \* path -> number of os.MkdirAll executions
    initRuns,       \* path -> number of `git init --bare` executions
    ioFault,        \* path -> a mkdir or git init has failed there
    version,        \* path -> modification marker of the directory
    rets,           \* the returns of createRepo, oldest first
    \* ---- the public-key handshake (sshd.go lines 72-127)
    keyFile,        \* what /etc/deistest.pub parses to: a key, or NoKey
    cxt,            \* the cookoo context shared by all handshakes
    hsPc,           \* connection -> position in the PublicKeyCallback
    hsKey,          \* connection -> the key this connection presented
    hsSeen,         \* connection -> the key AuthKey read from the context
    hsOut,          \* connection -> what the callback returned
    crashed,        \* the process has died of an unrecovered panic
    \* ---- NewSlugBuilderInfo (slug_builder_info.go lines 21-36)
    sbHost,         \* the environment's DEIS_BUILDER_SERVICE_HOST
    sbIn,           \* build -> its (appName, slugName, shortSHA)
    sbInfo,         \* build -> the SlugBuilderInfo computed, or NoInfo
    \* ---- gitreceive.Run (run.go lines 25-68)
    stdin,          \* the lines on standard input
    sshCmd,         \* conf.SSHOriginalCommand
    runVariant,     \* which copy of Run: "run.go" or "part_001"
    runPc,          \* position in Run
    lineNo,         \* index of the line being processed (0: none yet)
    parsed,         \* readLine's result for the current line
    runErr,         \* Run's return value: "nil" or an error
    events,         \* what Run has done, oldest first
    \* ---- the builder pod names (k8s_util.go, exercised by k8s_util_test.go)
    podApp,         \* the application name of the build
    podSha,         \* the short SHA of the build
    podNames,       \* kind of builder -> the pod name computed, or <<>>
    \* ---- git.Receive as a whole (part_001 lines 57-142), one per push
    rvName,         \* push -> the requested repository name (param "repoName")
    rvRepo,         \* push -> Receive's local `repo`
    rvPath,         \* push -> Receive's local `repoPath`
    rvPc,           \* push -> position in Receive
    rvCreated,      \* push -> the bool createRepo returned to it
    rvErr,          \* push -> which error Receive returned, "nil" for none
    rvMsg,          \* push -> the text of the error Receive returned
    rvTrace,        \* push -> what this invocation has done, oldest first
    hook,           \* path -> content of <path>/hooks/pre-receive, NoFile if none
    hookFailed,     \* path -> a write of the hook file has failed there
    pipeOpen,       \* push -> Receive holds the subprocess's stdin pipe open
    proc,           \* push -> state of its git-shell subprocess
    procKind,       \* push -> how its subprocess comes to exit
    errbuff,        \* push -> the captured standard error of the subprocess
    chanLeft,       \* push -> chunks the channel still has to deliver
    chanClosed,     \* push -> the client has closed the channel
    \* ---- ParseHostKeys (sshd.go lines 32-61)
    hkTypes,        \* the param "keytypes"
    hkFiles,        \* key type -> what the file of its host key holds
    hkV1,           \* the context's "enableV1"
    hkV1File,       \* what /etc/ssh/ssh_host_key holds
    hkPc,           \* position in ParseHostKeys
    hkIdx,          \* index of the key type the loop is at
    hostKeys,       \* the local `hostKeys`: the keys parsed so far
    hkRet           \* what ParseHostKeys returned: its interrupt, NotReturned before

cleanVars == <<repoName, repo, repoPath, recvPc, sanitized>>
repoVars  == <<createLock, fs0, fs, inited, crPc, crPath, crBegan, crCalls, mkdirRuns,
               initRuns, ioFault, version, rets>>
authVars  == <<keyFile, cxt, hsPc, hsKey, hsSeen, hsOut, crashed>>
slugVars  == <<sbHost, sbIn, sbInfo>>
runVars   == <<stdin, sshCmd, runVariant, runPc, lineNo, parsed, runErr, events>>
podVars   == <<podApp, podSha, podNames>>
recvVars  == <<rvName, rvRepo, rvPath, rvPc, rvCreated, rvErr, rvMsg, rvTrace, hook,
               hookFailed, pipeOpen, proc, procKind, errbuff, chanLeft, chanClosed>>
hostVars  == <<hkTypes, hkFiles, hkV1, hkV1File, hkPc, hkIdx, hostKeys, hkRet>>
vars      == <<cleanVars, repoVars, authVars, slugVars, runVars, podVars, recvVars,
               hostVars>>

----------------------------------------------------------------------------
(* Strings *)

\* All sequences over alphabet A of length 0..n.
StringsUpTo(A, n) == UNION {[1..k -> A] : k \in 0..n}

\* strings.HasPrefix
HasPrefix(s, p) == Len(s) >= Len(p) /\ SubSeq(s, 1, Len(p)) = p

\* strings.HasSuffix
HasSuffix(s, p) == Len(s) >= Len(p) /\ SubSeq(s, Len(s) - Len(p) + 1, Len(s)) = p

\* strings.Contains
Contains(s, sub) ==
    \E i \in 1..(Len(s) - Len(sub) + 1) : SubSeq(s, i, i + Len(sub) - 1) = sub

\* strings.TrimSuffix: s without the suffix, once, when it ends with it
TrimSuffix(s, p) == IF HasSuffix(s, p) THEN SubSeq(s, 1, Len(s) - Len(p)) ELSE s

\* strings.TrimPrefix: s without the prefix, once, when it starts with it
TrimPrefix(s, p) == IF HasPrefix(s, p) THEN SubSeq(s, Len(p) + 1, Len(s)) ELSE s

\* strings.Replace(s, c, "", -1) for a one-character c: every c removed
RECURSIVE RemoveAll(_, _)
RemoveAll(s, c) ==
    IF s = <<>> THEN <<>>
    ELSE IF Head(s) = c THEN RemoveAll(Tail(s), c)
         ELSE <<Head(s)>> \o RemoveAll(Tail(s), c)

\* strings.Split(s, sep) for a one-character sep: the pieces between the
\* separators, empty pieces included; always at least one piece.
RECURSIVE SplitFrom(_, _, _)
SplitFrom(s, sep, cur) ==
    IF s = <<>> THEN <<cur>>
    ELSE IF Head(s) = sep THEN <<cur>> \o SplitFrom(Tail(s), sep, <<>>)
         ELSE SplitFrom(Tail(s), sep, Append(cur, Head(s)))

Split(s, sep) == SplitFrom(s, sep, <<>>)

\* A Go string literal given as its characters.
DotGit  == <<".", "g", "i", "t">>
DotDot  == <<".", ".">>
Slash   == <<"/">>

----------------------------------------------------------------------------
(* Receive, lines 61-77: the repository name is sanitized, ".git" is       *)
(* appended and the result is joined to the git home.                      *)

\* Bounds of the sanitization model.
MaxNameLen == 5
MaxPushes  == 2

\* The characters a requested name is made of: the ones cleanRepoName
\* looks at, and letters.
NameChars == {".", "/", "'", "g", "i", "t"}

Names == StringsUpTo(NameChars, MaxNameLen)

\* Receive's gitHome parameter, at its default.
GitHome == <<"/", "h", "o", "m", "e", "/", "g", "i", "t">>

\* cleanRepoName(name) (string, error)
cleanRepoName(name) ==
    IF Len(name) = 0
    THEN [name |-> name, err |-> "Empty repo name."]
    ELSE IF Contains(name, DotDot)
    THEN [name |-> <<>>, err |-> "Cannot change directory in file name."]
    ELSE [name |-> TrimPrefix(TrimSuffix(RemoveAll(name, "'"), DotGit), Slash),
          err  |-> "nil"]

\* filepath.Clean of a rooted path, as the components of the cleaned path:
\* empty and "." components are dropped, ".." drops the component before it
\* (and is itself dropped at the root).
RECURSIVE CleanComponents(_, _)
CleanComponents(todo, done) ==
    IF todo = <<>> THEN done
    ELSE IF Head(todo) = <<>> \/ Head(todo) = <<".">>
         THEN CleanComponents(Tail(todo), done)
    ELSE IF Head(todo) = DotDot
         THEN CleanComponents(Tail(todo),
                  IF done = <<>> THEN done ELSE SubSeq(done, 1, Len(done) - 1))
    ELSE CleanComponents(Tail(todo), Append(done, Head(todo)))

\* filepath.Join(a, b) for a rooted a and a non-empty b: Clean(a + "/" + b)
Join(a, b) == CleanComponents(Split(a \o Slash \o b, "/"), <<>>)

CleanIdle ==
    /\ repoName = <<>>
    /\ repo = <<>>
    /\ repoPath = <<>>
    /\ recvPc = "idle"
    /\ sanitized = <<>>

CleanInit ==
    /\ repoName \in Names
    /\ repo = <<>>
    /\ repoPath = <<>>
    /\ recvPc = "start"
    /\ sanitized = <<>>

\* Receive lines 68-73: an illegal name ends the push with the error.
ReceiveClean ==
    /\ recvPc = "start"
    /\ LET r == cleanRepoName(repoName) IN
         IF r.err # "nil"
         THEN /\ recvPc' = "illegal"
              /\ UNCHANGED <<repo, sanitized>>
         ELSE /\ recvPc' = "cleaned"
              /\ repo' = r.name
              /\ sanitized' = Append(sanitized, r.name)
    /\ UNCHANGED <<repoName, repoPath>>

\* Receive lines 75-77: repo += ".git"; repoPath := filepath.Join(gitHome, repo)
ReceiveJoin ==
    /\ recvPc = "cleaned"
    /\ repo' = repo \o DotGit
    /\ repoPath' = Join(GitHome, repo \o DotGit)
    /\ recvPc' = "joined"
    /\ UNCHANGED <<repoName, sanitized>>

\* A later push asks for the name the previous push was sanitized to.
PushAgain ==
    /\ recvPc = "joined"
    /\ Len(sanitized) < MaxPushes
    /\ repoName' = sanitized[Len(sanitized)]
    /\ repo' = <<>>
    /\ repoPath' = <<>>
    /\ recvPc' = "start"
    /\ UNCHANGED sanitized

----------------------------------------------------------------------------
(* createRepo, part_001 lines 156-192: stat, mkdir and git init under the  *)
(* process-wide createLock. Each thread is one push calling createRepo.    *)

\* Bounds of the createRepo model.
NumThreads == 2
MaxCalls   == 3

Threads  == 1..NumThreads
NoThread == 0

\* Two repository paths under the git home.
Paths == {"/home/git/a.git", "/home/git/b.git"}

\* What os.Stat can find at a path: nothing (IsNotExist), a directory, a
\* regular file, or an error other than IsNotExist.
StatKinds == {"absent", "dir", "file", "denied"}

RepoIdle ==
    /\ createLock = NoThread
    /\ fs0 = <<>>
    /\ fs = <<>>
    /\ inited = <<>>
    /\ crPc = <<>>
    /\ crPath = <<>>
    /\ crBegan = <<>>
    /\ crCalls = 0
    /\ mkdirRuns = <<>>
    /\ initRuns = <<>>
    /\ ioFault = <<>>
    /\ version = <<>>
    /\ rets = <<>>

\* A directory that is there at the start is a repository an earlier run
\* has created.
RepoInit ==
    /\ createLock = NoThread
    /\ fs0 \in [Paths -> StatKinds]
    /\ fs = fs0
    /\ inited = [p \in Paths |-> fs0[p] = "dir"]
    /\ crPc = [t \in Threads |-> "idle"]
    /\ crPath = [t \in Threads |-> "/home/git/a.git"]
    /\ crBegan = [t \in Threads |-> 0]
    /\ crCalls = 0
    /\ mkdirRuns = [p \in Paths |-> 0]
    /\ initRuns = [p \in Paths |-> 0]
    /\ ioFault = [p \in Paths |-> FALSE]
    /\ version = [p \in Paths |-> 0]
    /\ rets = <<>>

\* A push reaches Receive line 79 and calls createRepo(c, repoPath).
CallCreateRepo(t, p) ==
    /\ crPc[t] = "idle"
    /\ crCalls < MaxCalls
    /\ crCalls' = crCalls + 1
    /\ crPc' = [crPc EXCEPT ![t] = "lock"]
    /\ crPath' = [crPath EXCEPT ![t] = p]
    /\ crBegan' = [crBegan EXCEPT ![t] = Len(rets)]
    /\ UNCHANGED <<createLock, fs0, fs, inited, mkdirRuns, initRuns, ioFault,
                   version, rets>>

\* sync.Mutex.Lock can return only while nobody holds the mutex.
LockNoWait(t) ==
    /\ crPc[t] = "lock"
    /\ createLock' = t
    /\ crPc' = [crPc EXCEPT ![t] = "stat"]
    /\ UNCHANGED <<fs0, fs, inited, crPath, crBegan, crCalls, mkdirRuns, initRuns,
                   ioFault, version, rets>>

\* line 165: createLock.Lock()
Lock(t) ==
    /\ crPc[t] = "lock"
    /\ createLock = NoThread
    /\ createLock' = t
    /\ crPc' = [crPc EXCEPT ![t] = "stat"]
    /\ UNCHANGED <<fs0, fs, inited, crPath, crBegan, crCalls, mkdirRuns, initRuns,
                   ioFault, version, rets>>

\* The lock is released on the successful returns only.
ReturnKeepsLockOnError(t, created, err, mk, gi, ver) ==
    /\ rets' = Append(rets, [path |-> crPath[t], began |-> crBegan[t],
                             created |-> created, err |-> err,
                             mkdirs |-> mk, inits |-> gi, mark |-> ver])
    /\ createLock' = IF err = "nil" THEN NoThread ELSE createLock
    /\ crPc' = [crPc EXCEPT ![t] = "idle"]

\* A return of createRepo: the deferred createLock.Unlock() (line 166) runs,
\* and the caller gets (created, err). mk, gi and ver are the path's
\* counters and marker as the call leaves them; began tells which returns
\* the call came after.
Return(t, created, err, mk, gi, ver) ==
    /\ rets' = Append(rets, [path |-> crPath[t], began |-> crBegan[t],
                             created |-> created, err |-> err,
                             mkdirs |-> mk, inits |-> gi, mark |-> ver])
    /\ createLock' = NoThread
    /\ crPc' = [crPc EXCEPT ![t] = "idle"]

\* An existing directory sends the call on to mkdir and git init.
StatIgnoresDir(t) ==
    LET p == crPath[t] IN
    /\ crPc[t] = "stat"
    /\ IF fs[p] \in {"absent", "dir"}
       THEN /\ crPc' = [crPc EXCEPT ![t] = "mkdir"]
            /\ UNCHANGED <<createLock, rets>>
       ELSE Return(t, FALSE, "stat error", mkdirRuns[p], initRuns[p], version[p])
    /\ UNCHANGED <<fs0, fs, inited, crPath, crBegan, crCalls, mkdirRuns, initRuns,
                   ioFault, version>>

\* lines 168-173 and 188-191: os.Stat(repoPath) and the branch on its result
Stat(t) ==
    LET p == crPath[t] IN
    /\ crPc[t] = "stat"
    /\ CASE fs[p] = "dir" ->
              Return(t, FALSE, "nil", mkdirRuns[p], initRuns[p], version[p])
         [] fs[p] = "absent" ->
              /\ crPc' = [crPc EXCEPT ![t] = "mkdir"]
              /\ UNCHANGED <<createLock, rets>>
         [] fs[p] = "file" ->
              Return(t, FALSE, "Expected directory, found file.",
                     mkdirRuns[p], initRuns[p], version[p])
         [] fs[p] = "denied" ->
              Return(t, FALSE, "stat error", mkdirRuns[p], initRuns[p], version[p])
    /\ UNCHANGED <<fs0, fs, inited, crPath, crBegan, crCalls, mkdirRuns, initRuns,
                   ioFault, version>>

\* lines 176-179: os.MkdirAll(repoPath, 0755). It creates the directory when
\* nothing is there, succeeds without a change when the directory exists,
\* and may fail.
Mkdir(t) ==
    LET p == crPath[t] IN
    /\ crPc[t] = "mkdir"
    /\ mkdirRuns' = [mkdirRuns EXCEPT ![p] = @ + 1]
    /\ \E ok \in BOOLEAN :
         IF ok
         THEN /\ fs' = [fs EXCEPT ![p] = "dir"]
              /\ version' = [version EXCEPT ![p] = IF fs[p] = "dir" THEN @ ELSE @ + 1]
              /\ crPc' = [crPc EXCEPT ![t] = "gitinit"]
              /\ UNCHANGED <<createLock, ioFault, rets>>
         ELSE /\ ioFault' = [ioFault EXCEPT ![p] = TRUE]
              /\ Return(t, FALSE, "mkdir error", mkdirRuns[p] + 1, initRuns[p],
                        version[p])
              /\ UNCHANGED <<fs, version>>
    /\ UNCHANGED <<fs0, inited, crPath, crBegan, crCalls, initRuns>>

\* lines 180-187: `git init --bare` in repoPath; it may fail.
GitInit(t) ==
    LET p == crPath[t] IN
    /\ crPc[t] = "gitinit"
    /\ initRuns' = [initRuns EXCEPT ![p] = @ + 1]
    /\ \E ok \in BOOLEAN :
         IF ok
         THEN /\ inited' = [inited EXCEPT ![p] = TRUE]
              /\ version' = [version EXCEPT ![p] = @ + 1]
              /\ Return(t, TRUE, "nil", mkdirRuns[p], initRuns[p] + 1,
                        version[p] + 1)
              /\ UNCHANGED ioFault
         ELSE /\ ioFault' = [ioFault EXCEPT ![p] = TRUE]
              /\ Return(t, FALSE, "git init error", mkdirRuns[p], initRuns[p] + 1,
                        version[p])
              /\ UNCHANGED <<inited, version>>
    /\ UNCHANGED <<fs0, fs, crPath, crBegan, crCalls, mkdirRuns>>

----------------------------------------------------------------------------
(* The public-key handshake, sshd.go lines 72-127. Configure installs a    *)
(* PublicKeyCallback that closes over ONE cookoo context: every handshake  *)
(* puts its key there, runs the route "pubkeyAuth" (AuthKey) on that       *)
(* context, and returns what the context then holds under "pubkeyAuth".    *)
(* Each connection runs its handshake on its own goroutine.                *)

\* Bounds of the handshake model.
NumConns == 2
KeyBits  == 2

Conns == 1..NumConns

KeyTypes == {"ssh-rsa", "ssh-ed25519"}

\* Key material: 1..KeyBits bits.
Blobs == UNION {[1..n -> {0, 1}] : n \in 1..KeyBits}

Keys == [type : KeyTypes, blob : Blobs]

\* ssh.ParseAuthorizedKey returns a nil key when the file is unreadable or
\* unparsable.
NoKey == [type |-> "nil", blob |-> <<>>]

\* The value of an ssh.Permissions: its Extensions map.
BuilderPerm == "user=builder"
EmptyPerm   == "{}"

\* What a callback has come to: nothing yet, a return of (perm, err), or a
\* panic.
NoOutcome       == [kind |-> "none", perm |-> "nil", err |-> "nil"]
Panicked        == [kind |-> "panic", perm |-> "nil", err |-> "nil"]
Returned(pm, e) == [kind |-> "returned", perm |-> pm, err |-> e]

\* ssh.PublicKey.Marshal: the wire format, the algorithm name and then the
\* key material.
Marshal(k) == <<k.type>> \o k.blob

\* subtle.ConstantTimeCompare(x, y): 0 when the lengths differ, else 1 iff
\* the OR of the bytewise XORs is zero.
RECURSIVE OrOfXors(_, _)
OrOfXors(x, y) ==
    IF x = <<>> THEN 0
    ELSE IF Head(x) # Head(y) THEN 1
         ELSE OrOfXors(Tail(x), Tail(y))

ConstantTimeCompare(x, y) ==
    IF Len(x) # Len(y) THEN 0
    ELSE IF OrOfXors(x, y) = 0 THEN 1 ELSE 0

\* compareKeys(a, b), sshd.go lines 92-99, for non-nil a and b
compareKeys(a, b) ==
    IF a.type # b.type THEN FALSE
    ELSE ConstantTimeCompare(Marshal(a), Marshal(b)) = 1

AuthIdle ==
    /\ keyFile = NoKey
    /\ cxt = <<>>
    /\ hsPc = <<>>
    /\ hsKey = <<>>
    /\ hsSeen = <<>>
    /\ hsOut = <<>>
    /\ crashed = FALSE

AuthInit ==
    /\ keyFile \in Keys \cup {NoKey}
    /\ cxt = [key |-> NoKey, metadata |-> 0, pubkeyAuth |-> "unset"]
    /\ hsPc = [c \in Conns |-> "putmeta"]
    /\ hsKey \in [Conns -> Keys]
    /\ hsSeen = [c \in Conns |-> NoKey]
    /\ hsOut = [c \in Conns |-> NoOutcome]
    /\ crashed = FALSE

\* line 117: c.Put("metadata", m)
CbPutMetadata(c) ==
    /\ ~crashed
    /\ hsPc[c] = "putmeta"
    /\ cxt' = [cxt EXCEPT !.metadata = c]
    /\ hsPc' = [hsPc EXCEPT ![c] = "putkey"]
    /\ UNCHANGED <<keyFile, hsKey, hsSeen, hsOut, crashed>>

\* line 118: c.Put("key", k)
CbPutKey(c) ==
    /\ ~crashed
    /\ hsPc[c] = "putkey"
    /\ cxt' = [cxt EXCEPT !.key = hsKey[c]]
    /\ hsPc' = [hsPc EXCEPT ![c] = "route"]
    /\ UNCHANGED <<keyFile, hsKey, hsSeen, hsOut, crashed>>

\* lines 120-121 and 74: router.HandleRequest starts the route; AuthKey's
\* parameter "key" is the key the context holds at that moment.
RouteReadKey(c) ==
    /\ ~crashed
    /\ hsPc[c] = "route"
    /\ hsSeen' = [hsSeen EXCEPT ![c] = cxt.key]
    /\ hsPc' = [hsPc EXCEPT ![c] = "authkey"]
    /\ UNCHANGED <<keyFile, cxt, hsKey, hsOut, crashed>>

\* AuthKey's result for the key it was given: the permission, a nil result
\* (with a nil error, line 88), or a panic: compareKeys calls b.Type() on the
\* nil key of an unreadable or unparsable file.
AuthKey(key) ==
    IF keyFile = NoKey THEN "panic"
    ELSE IF compareKeys(key, keyFile) THEN BuilderPerm
    ELSE "nil"

\* lines 75-88, and the router's store of the command's result under the
\* route's name. An unrecovered panic ends the process.
RunAuthKey(c) ==
    /\ ~crashed
    /\ hsPc[c] = "authkey"
    /\ LET res == AuthKey(hsSeen[c]) IN
         IF res = "panic"
         THEN /\ crashed' = TRUE
              /\ hsOut' = [hsOut EXCEPT ![c] = Panicked]
              /\ hsPc' = [hsPc EXCEPT ![c] = "done"]
              /\ UNCHANGED cxt
         ELSE /\ cxt' = [cxt EXCEPT !.pubkeyAuth = res]
              /\ hsPc' = [hsPc EXCEPT ![c] = "return"]
              /\ UNCHANGED <<hsOut, crashed>>
    /\ UNCHANGED <<keyFile, hsKey, hsSeen>>

\* line 122: return c.Get("pubkeyAuth", &ssh.Permissions{}).(*ssh.Permissions), err
\* err is HandleRequest's, and is nil: AuthKey never returns an interrupt.
\* A value never stored gives the default. For a stored nil, cookoo's Get
\* (not part of this repository) either returns it, and the type assertion
\* panics, or treats it as absent and returns the default.
CbReturn(c) ==
    /\ ~crashed
    /\ hsPc[c] = "return"
    /\ hsPc' = [hsPc EXCEPT ![c] = "done"]
    /\ \E out \in IF cxt.pubkeyAuth = "unset"
                    THEN {Returned(EmptyPerm, "nil")}
                  ELSE IF cxt.pubkeyAuth = "nil"
                    THEN {Panicked, Returned(EmptyPerm, "nil")}
                  ELSE {Returned(cxt.pubkeyAuth, "nil")} :
         /\ hsOut' = [hsOut EXCEPT ![c] = out]
         /\ crashed' = (out = Panicked)
    /\ UNCHANGED <<keyFile, cxt, hsKey, hsSeen>>

----------------------------------------------------------------------------
(* NewSlugBuilderInfo, slug_builder_info.go lines 21-36. Two builds are    *)
(* kept side by side, so that their keys and URLs can be compared.         *)

\* Bound of the storage-key model: the longest application or slug name.
MaxAppLen == 1

Builds == {1, 2}

Demo     == <<"d", "e", "m", "o">>
DemoSHA  == <<"1", "2", "3", "4", "5", "6", "7", "8">>

\* Application and slug names, and short SHAs (git.SHA.Short()): short ones
\* over two characters, and the names of the end-to-end scenario.
AppNames  == (StringsUpTo({"a", "b"}, MaxAppLen) \ {<<>>}) \cup {Demo}
ShortSHAs == [1..2 -> {"1", "2"}] \cup {DemoSHA}

\* os.Getenv("DEIS_BUILDER_SERVICE_HOST"): unset, or a host
Hosts == {<<>>, <<"h">>}

Home_    == <<"h", "o", "m", "e">>
HttpSS   == <<"h", "t", "t", "p", ":", "/", "/">>
Port3000 == <<":", "3", "0", "0", "0">>
GitDash  == <<"g", "i", "t", "-">>
SlashGitSlash == <<"/", "g", "i", "t", "/">>
Tar_     == <<"t", "a", "r">>
Push_    == <<"p", "u", "s", "h">>
Slug_    == <<"s", "l", "u", "g">>

NoInfo == [pushKey |-> <<>>, pushURL |-> <<>>, tarKey |-> <<>>, tarURL |-> <<>>,
           slugKey |-> <<>>, slugURL |-> <<>>]

\* The tar key is built from the application name.
TarKeyFromAppName(host, appName, slugName, shortSHA) ==
    LET s3Endpoint == HttpSS \o host \o Port3000
        tarKey  == Home_ \o Slash \o appName \o Slash \o Tar_
        pushKey == Home_ \o Slash \o appName \o <<":">> \o GitDash \o shortSHA
                     \o Slash \o Push_
        slugKey == Home_ \o Slash \o appName \o <<":">> \o GitDash \o shortSHA
                     \o Slash \o Slug_
    IN [pushKey |-> pushKey, pushURL |-> s3Endpoint \o SlashGitSlash \o pushKey,
        tarKey  |-> tarKey,  tarURL  |-> s3Endpoint \o SlashGitSlash \o tarKey,
        slugKey |-> slugKey, slugURL |-> s3Endpoint \o SlashGitSlash \o slugKey]

\* NewSlugBuilderInfo(appName, slugName, gitSha), with shortSHA the value of
\* gitSha.Short() and host the value of the environment variable.
NewSlugBuilderInfo(host, appName, slugName, shortSHA) ==
    LET s3Endpoint == HttpSS \o host \o Port3000
        tarKey  == Home_ \o Slash \o slugName \o Slash \o Tar_
        pushKey == Home_ \o Slash \o appName \o <<":">> \o GitDash \o shortSHA
                     \o Slash \o Push_
        slugKey == Home_ \o Slash \o appName \o <<":">> \o GitDash \o shortSHA
                     \o Slash \o Slug_
    IN [pushKey |-> pushKey, pushURL |-> s3Endpoint \o SlashGitSlash \o pushKey,
        tarKey  |-> tarKey,  tarURL  |-> s3Endpoint \o SlashGitSlash \o tarKey,
        slugKey |-> slugKey, slugURL |-> s3Endpoint \o SlashGitSlash \o slugKey]

SlugIdle ==
    /\ sbHost = <<>>
    /\ sbIn = <<>>
    /\ sbInfo = <<>>

\* Build 1 is called with any slug name; build 2 with the application name
\* as its slug name, as in the end-to-end scenario.
SlugInit ==
    /\ sbHost \in Hosts
    /\ sbIn \in { <<[app |-> a1, slug |-> s1, sha |-> h1],
                      [app |-> a2, slug |-> a2, sha |-> h2]>> :
                        a1 \in AppNames, s1 \in AppNames, h1 \in ShortSHAs,
                        a2 \in AppNames, h2 \in ShortSHAs }
    /\ sbInfo = [b \in Builds |-> NoInfo]

\* A build calls NewSlugBuilderInfo.
ComputeInfo(b) ==
    /\ sbInfo[b] = NoInfo
    /\ sbInfo' = [sbInfo EXCEPT ![b] =
                    NewSlugBuilderInfo(sbHost, sbIn[b].app, sbIn[b].slug, sbIn[b].sha)]
    /\ UNCHANGED <<sbHost, sbIn>>

----------------------------------------------------------------------------
(* gitreceive.Run and readLine, run.go lines 17-68; the older copy of the  *)
(* file (part_001 lines 233-271) has no builder key, no storage client and *)
(* no receive step.                                                        *)

\* Bounds of the Run model.
MaxLineLen == 5
MaxLines   == 3

\* One line of standard input: any short string over two letters and the
\* space.
LineChars == {"a", "b", " "}
AnyLines  == StringsUpTo(LineChars, MaxLineLen)

\* The lines of a push of several refs: well-formed ones, one with two
\* tokens and one with four.
RefLines == { <<"a", " ", "b", " ", "a">>, <<"b", " ", "a", " ", "b">>,
              <<"a", " ", "b">>, <<"a", " ", "b", " ", "a", " ", "b">> }

GitReceivePack == <<"g", "i", "t", "-", "r", "e", "c", "e", "i", "v", "e", "-",
                    "p", "a", "c", "k">>
GitUploadPack  == <<"g", "i", "t", "-", "u", "p", "l", "o", "a", "d", "-",
                    "p", "a", "c", "k">>

\* conf.SSHOriginalCommand: a receive-pack command, another command, unset.
Commands == { GitReceivePack \o <<" ", "'", "a", "'">>,
              GitUploadPack \o <<" ", "'", "a", "'">>,
              <<>> }

NoFields == [old |-> <<>>, new |-> <<>>, ref |-> <<>>, err |-> "nil"]

\* A line is accepted whatever its number of fields, the first three kept.
readLineAnyCount(line) ==
    LET spl == Split(line, " ")
        at(i) == IF i <= Len(spl) THEN spl[i] ELSE <<>>
    IN [old |-> at(1), new |-> at(2), ref |-> at(3), err |-> "nil"]

\* readLine(line) (string, string, string, error)
readLine(line) ==
    LET spl == Split(line, " ") IN
    IF Len(spl) # 3
    THEN [old |-> <<>>, new |-> <<>>, ref |-> <<>>, err |-> "malformed line"]
    ELSE [old |-> spl[1], new |-> spl[2], ref |-> spl[3], err |-> "nil"]

\* An entry of the record of what Run has done.
Event(op, n, rev) == [op |-> op, line |-> n, rev |-> rev]

RunIdle ==
    /\ stdin = <<>>
    /\ sshCmd = <<>>
    /\ runVariant = "none"
    /\ runPc = "idle"
    /\ lineNo = 0
    /\ parsed = NoFields
    /\ runErr = "nil"
    /\ events = <<>>

\* Standard input is one line of any shape, or up to MaxLines ref lines.
RunInit ==
    /\ stdin \in {<<l>> : l \in AnyLines} \cup StringsUpTo(RefLines, MaxLines)
    /\ sshCmd \in Commands
    /\ runVariant \in {"run.go", "part_001"}
    /\ runPc = "setup"
    /\ lineNo = 0
    /\ parsed = NoFields
    /\ runErr = "nil"
    /\ events = <<>>

\* run.go lines 28-41 (part_001 lines 244-247): the builder key, the storage
\* client and the cluster client; each can fail, and Run returns the error.
RunSetup ==
    /\ runPc = "setup"
    /\ \E e \in IF runVariant = "run.go"
                THEN {"nil", "builder key", "configuring S3 client",
                      "couldn't reach the api server"}
                ELSE {"nil", "couldn't reach the api server"} :
         /\ runErr' = e
         /\ runPc' = IF e = "nil" THEN "scan" ELSE "done"
    /\ UNCHANGED <<stdin, sshCmd, runVariant, lineNo, parsed, events>>

\* run.go lines 44-45: scanner.Scan() gives the next line.
RunScanLine ==
    /\ runPc = "scan"
    /\ lineNo < Len(stdin)
    /\ lineNo' = lineNo + 1
    /\ events' = Append(events, Event("examine", lineNo + 1, <<>>))
    /\ runPc' = "parse"
    /\ UNCHANGED <<stdin, sshCmd, runVariant, parsed, runErr>>

\* run.go lines 44 and 64-67: scanner.Scan() returns false, at the end of
\* the input (scanner.Err() is nil) or on a read error, which Run returns.
RunScanEnd ==
    /\ runPc = "scan"
    /\ \/ /\ lineNo = Len(stdin)
          /\ runErr' = "nil"
       \/ /\ lineNo < Len(stdin)
          /\ runErr' = "read error"
    /\ runPc' = "done"
    /\ UNCHANGED <<stdin, sshCmd, runVariant, lineNo, parsed, events>>

\* A malformed line is skipped and the loop goes on.
RunParseSkipsMalformed ==
    /\ runPc = "parse"
    /\ LET r == readLine(stdin[lineNo]) IN
         /\ parsed' = r
         /\ IF r.err # "nil"
            THEN /\ events' = Append(events, Event("malformed", lineNo, <<>>))
                 /\ runPc' = "scan"
                 /\ UNCHANGED runErr
            ELSE /\ runPc' = IF runVariant = "run.go" THEN "receive" ELSE "check"
                 /\ UNCHANGED <<runErr, events>>
    /\ UNCHANGED <<stdin, sshCmd, runVariant, lineNo>>

\* run.go lines 45-50: oldRev, newRev, refName, err := readLine(line); a
\* malformed line ends Run with the error.
RunParse ==
    /\ runPc = "parse"
    /\ LET r == readLine(stdin[lineNo]) IN
         /\ parsed' = r
         /\ IF r.err # "nil"
            THEN /\ events' = Append(events, Event("malformed", lineNo, <<>>))
                 /\ runErr' = "reading STDIN (malformed line)"
                 /\ runPc' = "done"
            ELSE /\ runPc' = IF runVariant = "run.go" THEN "receive" ELSE "check"
                 /\ UNCHANGED <<runErr, events>>
    /\ UNCHANGED <<stdin, sshCmd, runVariant, lineNo>>

\* run.go lines 54-56: receive(conf, builderKey, newRev); its error ends Run.
RunReceive ==
    /\ runPc = "receive"
    /\ \E ok \in BOOLEAN :
         IF ok
         THEN /\ events' = Append(events, Event("received", lineNo, parsed.new))
              /\ runPc' = "check"
              /\ UNCHANGED runErr
         ELSE /\ events' = Append(events, Event("receive failed", lineNo, parsed.new))
              /\ runErr' = "receive error"
              /\ runPc' = "done"
    /\ UNCHANGED <<stdin, sshCmd, runVariant, lineNo, parsed>>

\* build(..., newRev) is called whatever the SSH command is.
RunCheckCommandAlwaysBuilds ==
    /\ runPc = "check"
    /\ events' = Append(events, Event("build start", lineNo, parsed.new))
    /\ runPc' = "build"
    /\ UNCHANGED <<stdin, sshCmd, runVariant, lineNo, parsed, runErr>>

\* run.go lines 58-59: on a receive-pack command build(..., newRev) is
\* called; on any other command the loop goes on to the next line.
RunCheckCommand ==
    /\ runPc = "check"
    /\ IF HasPrefix(sshCmd, GitReceivePack)
       THEN /\ events' = Append(events, Event("build start", lineNo, parsed.new))
            /\ runPc' = "build"
       ELSE /\ runPc' = "scan"
            /\ UNCHANGED events
    /\ UNCHANGED <<stdin, sshCmd, runVariant, lineNo, parsed, runErr>>

\* run.go lines 59-61: build returns; its error ends Run.
RunBuildReturns ==
    /\ runPc = "build"
    /\ \E ok \in BOOLEAN :
         IF ok
         THEN /\ events' = Append(events, Event("build done", lineNo, parsed.new))
              /\ runPc' = "scan"
              /\ UNCHANGED runErr
         ELSE /\ events' = Append(events, Event("build failed", lineNo, parsed.new))
              /\ runErr' = "build error"
              /\ runPc' = "done"
    /\ UNCHANGED <<stdin, sshCmd, runVariant, lineNo, parsed>>

----------------------------------------------------------------------------
(* slugBuilderPodName and dockerBuilderPodName. Their file (k8s_util.go)   *)
(* is not among the sources; k8s_util_test.go lines 11-23 calls them. They *)
(* are modelled from the specification: a fixed prefix, the application    *)
(* name, the short SHA and a random suffix, joined by dashes.              *)

Slugbuild   == <<"s", "l", "u", "g", "b", "u", "i", "l", "d">>
Dockerbuild == <<"d", "o", "c", "k", "e", "r", "b", "u", "i", "l", "d">>
Dash        == <<"-">>

PodKinds == {"slug", "docker"}

\* The random suffixes: short non-empty strings of hexadecimal digits.
Suffixes == StringsUpTo({"0", "f"}, 2) \ {<<>>}

\* The name is made of the prefix, the application name and the suffix.
slugBuilderPodNameNoSHA(appName, shortSha, uid) ==
    Slugbuild \o Dash \o appName \o Dash \o uid

\* slugBuilderPodName(appName, shortSha), with uid the random suffix drawn
slugBuilderPodName(appName, shortSha, uid) ==
    Slugbuild \o Dash \o appName \o Dash \o shortSha \o Dash \o uid

\* dockerBuilderPodName(appName, shortSha), with uid the random suffix drawn
dockerBuilderPodName(appName, shortSha, uid) ==
    Dockerbuild \o Dash \o appName \o Dash \o shortSha \o Dash \o uid

PodIdle ==
    /\ podApp = <<>>
    /\ podSha = <<>>
    /\ podNames = <<>>

PodInit ==
    /\ podApp \in AppNames
    /\ podSha \in ShortSHAs
    /\ podNames = [k \in PodKinds |-> <<>>]

\* A slug build names its pod.
NameSlugBuilderPod ==
    /\ podNames["slug"] = <<>>
    /\ \E uid \in Suffixes :
         podNames' = [podNames EXCEPT !["slug"] = slugBuilderPodName(podApp, podSha, uid)]
    /\ UNCHANGED <<podApp, podSha>>

\* A docker build names its pod.
NameDockerBuilderPod ==
    /\ podNames["docker"] = <<>>
    /\ \E uid \in Suffixes :
         podNames' = [podNames EXCEPT !["docker"] = dockerBuilderPodName(podApp, podSha, uid)]
    /\ UNCHANGED <<podApp, podSha>>

\* A retried push names its pods anew.
RetryPush ==
    /\ podNames["slug"] # <<>>
    /\ podNames["docker"] # <<>>
    /\ podNames' = [k \in PodKinds |-> <<>>]
    /\ UNCHANGED <<podApp, podSha>>

----------------------------------------------------------------------------
(* git.Receive as a whole, part_001 lines 57-142. Each push is one thread: *)
(* it sanitizes the name, calls createRepo (the actions above), writes the *)
(* pre-receive hook, starts git-shell, copies the channel into the         *)
(* subprocess's standard input and waits for the subprocess.               *)

\* Bounds of the Receive model: the chunks a channel delivers and the
\* writes a subprocess makes to its standard error.
MaxChunks == 1
MaxErrLen == 1

\* The names the pushes ask for: one that is "a" as it stands, one that
\* sanitizes to "b", an empty one and one with "..".
RecvNames == { <<"a">>, <<"/", "'", "b", "'", ".", "g", "i", "t">>, <<>>,
               <<"a", "/", ".", ".">> }

\* The cleaned components of the paths of the createRepo model.
PathComponents(p) ==
    CASE p = "/home/git/a.git" ->
           << <<"h", "o", "m", "e">>, <<"g", "i", "t">>, <<"a", ".", "g", "i", "t">> >>
      [] p = "/home/git/b.git" ->
           << <<"h", "o", "m", "e">>, <<"g", "i", "t">>, <<"b", ".", "g", "i", "t">> >>

NoPath == "none"

\* filepath.Join(gitHome, repo), line 77, as a path of the createRepo model
RepoPathOf(gitHome, r) ==
    IF \E p \in Paths : PathComponents(p) = Join(gitHome, r)
    THEN CHOOSE p \in Paths : PathComponents(p) = Join(gitHome, r)
    ELSE NoPath

\* No hook file.
NoFile == <<"no file">>

\* preReceiveHookTplStr, lines 27-40, rendered with .GitHome (line 198)
PreReceiveHook(gitHome) ==
    << "#!/bin/bash\n",
       "strip_remote_prefix() {\n",
       "    stdbuf -i0 -o0 -e0 sed \"s/^/\"$'\\e[1G'\"/\"\n",
       "}\n",
       "\n",
       "GIT_HOME=" >> \o gitHome \o
    << " \\\n",
       "SSH_CONNECTION=\"$SSH_CONNECTION\" \\\n",
       "SSH_ORIGINAL_COMMAND=\"$SSH_ORIGINAL_COMMAND\" \\\n",
       "REPOSITORY=\"$RECEIVE_REPO\" \\\n",
       "USERNAME=\"$RECEIVE_USER\" \\\n",
       "FINGERPRINT=\"$RECEIVE_FINGERPRINT\" \\\n",
       "POD_NAMESPACE=\"$POD_NAMESPACE\" \\\n",
       "boot git-receive | strip_remote_prefix\n" >>

\* The text of the operating system's error behind a failure.
Cause == <<"E">>

\* What a subprocess writes to its standard error in one write.
ErrOutput == <<"X">>

\* line 118: fmt.Errorf("Failed to start git pre-receive hook: %s (%s)", err, errbuff.Bytes())
StartError(err, buf) ==
    <<"F", "a", "i", "l", "e", "d", " ", "t", "o", " ", "s", "t", "a",
      "r", "t", " ", "g", "i", "t", " ", "p", "r", "e", "-", "r", "e",
      "c", "e", "i", "v", "e", " ", "h", "o", "o", "k", ":", " ">>
      \o err \o <<" ", "(">> \o buf \o <<")">>

\* line 124: fmt.Errorf("Failed to write git objects into the git pre-receive hook (%s)", err)
CopyError(err) ==
    <<"F", "a", "i", "l", "e", "d", " ", "t", "o", " ", "w", "r", "i",
      "t", "e", " ", "g", "i", "t", " ", "o", "b", "j", "e", "c", "t",
      "s", " ", "i", "n", "t", "o", " ", "t", "h", "e", " ", "g", "i",
      "t", " ", "p", "r", "e", "-", "r", "e", "c", "e", "i", "v", "e",
      " ", "h", "o", "o", "k", " ", "(">>
      \o err \o <<")">>

\* line 132: fmt.Errorf("Failed to run git pre-receive hook: %s (%s)", errbuff.Bytes(), err)
WaitError(buf, err) ==
    <<"F", "a", "i", "l", "e", "d", " ", "t", "o", " ", "r", "u", "n",
      " ", "g", "i", "t", " ", "p", "r", "e", "-", "r", "e", "c", "e",
      "i", "v", "e", " ", "h", "o", "o", "k", ":", " ">>
      \o buf \o <<" ", "(">> \o err \o <<")">>

\* How a subprocess comes to exit: when its standard input is at its end
\* ("reads to end"), or by itself at any moment ("any time").
ProcKinds == {"reads to end", "any time"}

RecvIdle ==
    /\ rvName = <<>>
    /\ rvRepo = <<>>
    /\ rvPath = <<>>
    /\ rvPc = <<>>
    /\ rvCreated = <<>>
    /\ rvErr = <<>>
    /\ rvMsg = <<>>
    /\ rvTrace = <<>>
    /\ hook = <<>>
    /\ hookFailed = <<>>
    /\ pipeOpen = <<>>
    /\ proc = <<>>
    /\ procKind = <<>>
    /\ errbuff = <<>>
    /\ chanLeft = <<>>
    /\ chanClosed = <<>>

\* A repository that is there at the start has its hook from an earlier
\* push. Each client has MaxChunks chunks to send.
RecvInit ==
    /\ rvName \in [Threads -> RecvNames]
    /\ rvRepo = [t \in Threads |-> <<>>]
    /\ rvPath = [t \in Threads |-> NoPath]
    /\ rvPc = [t \in Threads |-> "clean"]
    /\ rvCreated = [t \in Threads |-> FALSE]
    /\ rvErr = [t \in Threads |-> "nil"]
    /\ rvMsg = [t \in Threads |-> <<>>]
    /\ rvTrace = [t \in Threads |-> <<>>]
    /\ hook = [p \in Paths |-> IF fs0[p] = "dir" THEN PreReceiveHook(GitHome) ELSE NoFile]
    /\ hookFailed = [p \in Paths |-> FALSE]
    /\ pipeOpen = [t \in Threads |-> FALSE]
    /\ proc = [t \in Threads |-> "none"]
    /\ procKind = [t \in Threads |-> "any time"]
    /\ errbuff = [t \in Threads |-> <<>>]
    /\ chanLeft = [t \in Threads |-> MaxChunks]
    /\ chanClosed = [t \in Threads |-> FALSE]

\* Receive returns (nil, err): kind names the failing step, msg is the text.
RcvFail(t, kind, msg, ev) ==
    /\ rvErr' = [rvErr EXCEPT ![t] = kind]
    /\ rvMsg' = [rvMsg EXCEPT ![t] = msg]
    /\ rvTrace' = [rvTrace EXCEPT ![t] = Append(@, ev)]
    /\ rvPc' = [rvPc EXCEPT ![t] = "done"]

\* lines 68-77: cleanRepoName; an illegal name ends the push. Else
\* repo += ".git" and repoPath := filepath.Join(gitHome, repo).
RcvClean(t) ==
    /\ rvPc[t] = "clean"
    /\ LET r == cleanRepoName(rvName[t]) IN
         IF r.err # "nil"
         THEN /\ RcvFail(t, "illegal name", <<>>, "clean failed")
              /\ UNCHANGED <<rvRepo, rvPath>>
         ELSE /\ rvRepo' = [rvRepo EXCEPT ![t] = r.name \o DotGit]
              /\ rvPath' = [rvPath EXCEPT ![t] = RepoPathOf(GitHome, r.name \o DotGit)]
              /\ rvTrace' = [rvTrace EXCEPT ![t] = Append(@, "clean ok")]
              /\ rvPc' = [rvPc EXCEPT ![t] = "create"]
              /\ UNCHANGED <<rvErr, rvMsg>>
    /\ UNCHANGED <<rvName, rvCreated, hook, hookFailed, pipeOpen, proc, procKind,
                   errbuff, chanLeft, chanClosed>>
    /\ UNCHANGED repoVars

\* line 79: createRepo(c, repoPath) is called.
RcvCallCreateRepo(t) ==
    /\ rvPc[t] = "create"
    /\ CallCreateRepo(t, rvPath[t])
    /\ rvPc' = [rvPc EXCEPT ![t] = "in createRepo"]
    /\ rvTrace' = [rvTrace EXCEPT ![t] = Append(@, "createRepo called")]
    /\ UNCHANGED <<rvName, rvRepo, rvPath, rvCreated, rvErr, rvMsg, hook, hookFailed,
                   pipeOpen, proc, procKind, errbuff, chanLeft, chanClosed>>

\* lines 79-83: when the step of createRepo just taken was a return, Receive
\* goes on to the hook, or returns createRepo's error.
RcvAfterCreateRepo(t) ==
    /\ IF crPc'[t] = "idle"
       THEN LET r == rets'[Len(rets')] IN
            IF r.err = "nil"
            THEN /\ rvCreated' = [rvCreated EXCEPT ![t] = r.created]
                 /\ rvTrace' = [rvTrace EXCEPT ![t] = Append(@, "createRepo ok")]
                 /\ rvPc' = [rvPc EXCEPT ![t] = "hook"]
                 /\ UNCHANGED <<rvErr, rvMsg>>
            ELSE /\ RcvFail(t, "createRepo", <<>>, "createRepo failed")
                 /\ UNCHANGED rvCreated
       ELSE UNCHANGED <<rvCreated, rvTrace, rvPc, rvErr, rvMsg>>
    /\ UNCHANGED <<rvName, rvRepo, rvPath, hook, hookFailed, pipeOpen, proc, procKind,
                   errbuff, chanLeft, chanClosed>>

\* The push takes createRepo's lock.
RcvLock(t) ==
    /\ rvPc[t] = "in createRepo"
    /\ Lock(t)
    /\ UNCHANGED recvVars

\* The push's steps inside createRepo.
RcvStat(t) == rvPc[t] = "in createRepo" /\ Stat(t) /\ RcvAfterCreateRepo(t)

RcvMkdir(t) == rvPc[t] = "in createRepo" /\ Mkdir(t) /\ RcvAfterCreateRepo(t)

RcvGitInit(t) == rvPc[t] = "in createRepo" /\ GitInit(t) /\ RcvAfterCreateRepo(t)

\* The hook is written only for a repository createRepo has just created.
RcvHookOpenOnlyWhenCreated(t) ==
    /\ rvPc[t] = "hook"
    /\ IF rvCreated[t]
       THEN /\ hook' = [hook EXCEPT ![rvPath[t]] = <<>>]
            /\ rvPc' = [rvPc EXCEPT ![t] = "hook write"]
       ELSE /\ rvPc' = [rvPc EXCEPT ![t] = "pipe"]
            /\ UNCHANGED hook
    /\ UNCHANGED <<rvName, rvRepo, rvPath, rvCreated, rvErr, rvMsg, rvTrace,
                   hookFailed, pipeOpen, proc, procKind, errbuff, chanLeft, chanClosed>>
    /\ UNCHANGED repoVars

\* A failure to open the hook file is not returned.
RcvHookOpenIgnoresFailure(t) ==
    /\ rvPc[t] = "hook"
    /\ \E ok \in IF inited[rvPath[t]] THEN BOOLEAN ELSE {FALSE} :
         IF ok
         THEN /\ hook' = [hook EXCEPT ![rvPath[t]] = <<>>]
              /\ rvPc' = [rvPc EXCEPT ![t] = "hook write"]
         ELSE /\ rvPc' = [rvPc EXCEPT ![t] = "pipe"]
              /\ UNCHANGED hook
    /\ UNCHANGED <<rvName, rvRepo, rvPath, rvCreated, rvErr, rvMsg, rvTrace,
                   hookFailed, pipeOpen, proc, procKind, errbuff, chanLeft, chanClosed>>
    /\ UNCHANGED repoVars

\* lines 86-90 and 198-204: createPreReceiveHook renders the template and
\* ioutil.WriteFile opens <repoPath>/hooks/pre-receive, truncating it. The
\* open fails when the directory has no hooks directory (git init has never
\* completed there), and may fail otherwise.
RcvHookOpen(t) ==
    /\ rvPc[t] = "hook"
    /\ \E ok \in IF inited[rvPath[t]] THEN BOOLEAN ELSE {FALSE} :
         IF ok
         THEN /\ hook' = [hook EXCEPT ![rvPath[t]] = <<>>]
              /\ rvPc' = [rvPc EXCEPT ![t] = "hook write"]
              /\ UNCHANGED <<rvErr, rvMsg, rvTrace>>
         ELSE /\ RcvFail(t, "hook", <<>>, "hook failed")
              /\ UNCHANGED hook
    /\ UNCHANGED <<rvName, rvRepo, rvPath, rvCreated, hookFailed, pipeOpen, proc,
                   procKind, errbuff, chanLeft, chanClosed>>
    /\ UNCHANGED repoVars

\* line 204: ioutil.WriteFile writes the rendered bytes and closes the file;
\* the write may fail, and leaves the file truncated.
RcvHookWrite(t) ==
    /\ rvPc[t] = "hook write"
    /\ \E ok \in BOOLEAN :
         IF ok
         THEN /\ hook' = [hook EXCEPT ![rvPath[t]] = PreReceiveHook(GitHome)]
              /\ rvTrace' = [rvTrace EXCEPT ![t] = Append(@, "hook ok")]
              /\ rvPc' = [rvPc EXCEPT ![t] = "pipe"]
              /\ UNCHANGED <<rvErr, rvMsg, hookFailed>>
         ELSE /\ RcvFail(t, "hook", <<>>, "hook failed")
              /\ hookFailed' = [hookFailed EXCEPT ![rvPath[t]] = TRUE]
              /\ UNCHANGED hook
    /\ UNCHANGED <<rvName, rvRepo, rvPath, rvCreated, pipeOpen, proc, procKind,
                   errbuff, chanLeft, chanClosed>>
    /\ UNCHANGED repoVars

\* lines 92-113: the command is prepared and cmd.StdinPipe() makes the pipe;
\* its error is returned as it is.
RcvStdinPipe(t) ==
    /\ rvPc[t] = "pipe"
    /\ \E ok \in BOOLEAN :
         IF ok
         THEN /\ pipeOpen' = [pipeOpen EXCEPT ![t] = TRUE]
              /\ rvPc' = [rvPc EXCEPT ![t] = "cmd start"]
              /\ UNCHANGED <<rvErr, rvMsg, rvTrace>>
         ELSE /\ RcvFail(t, "pipe", Cause, "pipe failed")
              /\ UNCHANGED pipeOpen
    /\ UNCHANGED <<rvName, rvRepo, rvPath, rvCreated, hook, hookFailed, proc,
                   procKind, errbuff, chanLeft, chanClosed>>
    /\ UNCHANGED repoVars

\* lines 117-121: cmd.Start(); a failure is returned with the buffer, and
\* exec closes the pipe.
RcvCmdStart(t) ==
    /\ rvPc[t] = "cmd start"
    /\ \/ /\ \E k \in ProcKinds : procKind' = [procKind EXCEPT ![t] = k]
          /\ proc' = [proc EXCEPT ![t] = "running"]
          /\ rvTrace' = [rvTrace EXCEPT ![t] = Append(@, "started")]
          /\ rvPc' = [rvPc EXCEPT ![t] = "copy"]
          /\ UNCHANGED <<rvErr, rvMsg, pipeOpen>>
       \/ /\ RcvFail(t, "start", StartError(Cause, errbuff[t]), "start failed")
          /\ pipeOpen' = [pipeOpen EXCEPT ![t] = FALSE]
          /\ UNCHANGED <<proc, procKind>>
    /\ UNCHANGED <<rvName, rvRepo, rvPath, rvCreated, hook, hookFailed, errbuff,
                   chanLeft, chanClosed>>
    /\ UNCHANGED repoVars

\* line 123, io.Copy(inpipe, channel): a chunk is read from the channel and
\* written to the pipe; the write fails when the subprocess has exited, and
\* the error is returned.
RcvCopyChunk(t) ==
    /\ rvPc[t] = "copy"
    /\ chanLeft[t] > 0
    /\ chanLeft' = [chanLeft EXCEPT ![t] = @ - 1]
    /\ IF proc[t] = "running"
       THEN UNCHANGED <<rvErr, rvMsg, rvTrace, rvPc>>
       ELSE RcvFail(t, "copy", CopyError(Cause), "copy failed")
    /\ UNCHANGED <<rvName, rvRepo, rvPath, rvCreated, hook, hookFailed, pipeOpen,
                   proc, procKind, errbuff, chanClosed>>
    /\ UNCHANGED repoVars

\* line 123: the channel read fails; io.Copy returns the error.
RcvCopyReadError(t) ==
    /\ rvPc[t] = "copy"
    /\ ~chanClosed[t]
    /\ RcvFail(t, "copy", CopyError(Cause), "read failed")
    /\ UNCHANGED <<rvName, rvRepo, rvPath, rvCreated, hook, hookFailed, pipeOpen,
                   proc, procKind, errbuff, chanLeft, chanClosed>>
    /\ UNCHANGED repoVars

\* line 123: the channel read reaches the end of the input; io.Copy returns
\* nil. Nothing closes inpipe.
RcvCopyEnd(t) ==
    /\ rvPc[t] = "copy"
    /\ chanLeft[t] = 0
    /\ chanClosed[t]
    /\ rvTrace' = [rvTrace EXCEPT ![t] = Append(@, "copy ok")]
    /\ rvPc' = [rvPc EXCEPT ![t] = "wait"]
    /\ UNCHANGED <<rvName, rvRepo, rvPath, rvCreated, rvErr, rvMsg, hook, hookFailed,
                   pipeOpen, proc, procKind, errbuff, chanLeft, chanClosed>>
    /\ UNCHANGED repoVars

\* lines 131-141: cmd.Wait() returns once the subprocess has exited, and
\* only then closes the pipe; a failed exit is returned with the buffer,
\* leftover standard error with a successful exit is logged.
RcvWait(t) ==
    /\ rvPc[t] = "wait"
    /\ proc[t] \in {"exited 0", "exited 1"}
    /\ pipeOpen' = [pipeOpen EXCEPT ![t] = FALSE]
    /\ IF proc[t] = "exited 1"
       THEN RcvFail(t, "wait", WaitError(errbuff[t], Cause), "wait failed")
       ELSE /\ rvTrace' = [rvTrace EXCEPT ![t] = Append(@, "wait ok")]
            /\ rvPc' = [rvPc EXCEPT ![t] = "done"]
            /\ UNCHANGED <<rvErr, rvMsg>>
    /\ UNCHANGED <<rvName, rvRepo, rvPath, rvCreated, hook, hookFailed, proc,
                   procKind, errbuff, chanLeft, chanClosed>>
    /\ UNCHANGED repoVars

\* The subprocess writes to its standard error (line 115: into errbuff).
ProcWriteStderr(t) ==
    /\ proc[t] = "running"
    /\ Len(errbuff[t]) < MaxErrLen
    /\ errbuff' = [errbuff EXCEPT ![t] = @ \o ErrOutput]
    /\ UNCHANGED <<rvName, rvRepo, rvPath, rvPc, rvCreated, rvErr, rvMsg, rvTrace,
                   hook, hookFailed, pipeOpen, proc, procKind, chanLeft, chanClosed>>
    /\ UNCHANGED repoVars

\* The subprocess exits, with or without success. One that reads its input
\* to the end does so only when the write end of its pipe is closed.
ProcExit(t) ==
    /\ proc[t] = "running"
    /\ procKind[t] = "reads to end" => ~pipeOpen[t]
    /\ \E st \in {"exited 0", "exited 1"} : proc' = [proc EXCEPT ![t] = st]
    /\ UNCHANGED <<rvName, rvRepo, rvPath, rvPc, rvCreated, rvErr, rvMsg, rvTrace,
                   hook, hookFailed, pipeOpen, procKind, errbuff, chanLeft, chanClosed>>
    /\ UNCHANGED repoVars

\* The client closes the SSH channel; Receive sees it in its copy.
ChannelClose(t) ==
    /\ rvPc[t] = "copy"
    /\ ~chanClosed[t]
    /\ chanClosed' = [chanClosed EXCEPT ![t] = TRUE]
    /\ UNCHANGED <<rvName, rvRepo, rvPath, rvPc, rvCreated, rvErr, rvMsg, rvTrace,
                   hook, hookFailed, pipeOpen, proc, procKind, errbuff, chanLeft>>
    /\ UNCHANGED repoVars

----------------------------------------------------------------------------
(* ParseHostKeys, sshd.go lines 32-61: the host key of each configured     *)
(* type is read and parsed, then the V1 key when enabled, and the keys     *)
(* that parsed are returned.                                               *)

\* Bound of the host key model: the longest "keytypes" parameter.
MaxKeyTypes == 3

HostKeyTypes == {"rsa", "dsa", "ecdsa"}

\* What the file of a host key holds: there is no file, the file holds
\* something ssh.ParsePrivateKey rejects, or it holds a key.
FileKinds == {"missing", "unparsable", "key"}

NotReturned == "not returned"

HostIdle ==
    /\ hkTypes = <<>>
    /\ hkFiles = <<>>
    /\ hkV1 = FALSE
    /\ hkV1File = "missing"
    /\ hkPc = "idle"
    /\ hkIdx = 0
    /\ hostKeys = <<>>
    /\ hkRet = NotReturned

\* At least one key type is configured.
HostInit ==
    /\ hkTypes \in StringsUpTo(HostKeyTypes, MaxKeyTypes) \ {<<>>}
    /\ hkFiles \in [HostKeyTypes -> FileKinds]
    /\ hkV1 \in BOOLEAN
    /\ hkV1File \in FileKinds
    /\ hkPc = "loop"
    /\ hkIdx = 1
    /\ hostKeys = <<>>
    /\ hkRet = NotReturned

\* lines 37-48: one turn of the loop; the key is appended when its file is
\* read and parsed, and the type is skipped otherwise.
ParseNextHostKey ==
    /\ hkPc = "loop"
    /\ hkIdx <= Len(hkTypes)
    /\ hostKeys' = IF hkFiles[hkTypes[hkIdx]] = "key"
                   THEN Append(hostKeys, hkTypes[hkIdx])
                   ELSE hostKeys
    /\ hkIdx' = hkIdx + 1
    /\ UNCHANGED <<hkTypes, hkFiles, hkV1, hkV1File, hkPc, hkRet>>

\* line 37: the loop has gone through the key types.
ParseHostKeysLoopEnd ==
    /\ hkPc = "loop"
    /\ hkIdx > Len(hkTypes)
    /\ hkPc' = "v1"
    /\ UNCHANGED <<hkTypes, hkFiles, hkV1, hkV1File, hkIdx, hostKeys, hkRet>>

\* lines 49-59: with enableV1, /etc/ssh/ssh_host_key is read and parsed.
ParseV1HostKey ==
    /\ hkPc = "v1"
    /\ hostKeys' = IF hkV1 /\ hkV1File = "key"
                   THEN Append(hostKeys, "ssh_host_key")
                   ELSE hostKeys
    /\ hkPc' = "return"
    /\ UNCHANGED <<hkTypes, hkFiles, hkV1, hkV1File, hkIdx, hkRet>>

\* line 60: return hostKeys, nil
ParseHostKeysReturn ==
    /\ hkPc = "return"
    /\ hkRet' = "nil"
    /\ hkPc' = "done"
    /\ UNCHANGED <<hkTypes, hkFiles, hkV1, hkV1File, hkIdx, hostKeys>>

----------------------------------------------------------------------------
(* The specifications *)

notClean == <<repoVars, authVars, slugVars, runVars, podVars, recvVars, hostVars>>
notRepo  == <<cleanVars, authVars, slugVars, runVars, podVars, recvVars, hostVars>>
notAuth  == <<cleanVars, repoVars, slugVars, runVars, podVars, recvVars, hostVars>>
notSlug  == <<cleanVars, repoVars, authVars, runVars, podVars, recvVars, hostVars>>
notRun   == <<cleanVars, repoVars, authVars, slugVars, podVars, recvVars, hostVars>>
notPod   == <<cleanVars, repoVars, authVars, slugVars, runVars, recvVars, hostVars>>
notRecv  == <<cleanVars, authVars, slugVars, runVars, podVars, hostVars>>
notHost  == <<cleanVars, repoVars, authVars, slugVars, runVars, podVars, recvVars>>

\* Receive's sanitization of the requested name.
InitClean == CleanInit /\ RepoIdle /\ AuthIdle /\ SlugIdle /\ RunIdle /\ PodIdle /\ RecvIdle /\ HostIdle

NextClean ==
    \/ ReceiveClean /\ UNCHANGED notClean
    \/ ReceiveJoin /\ UNCHANGED notClean
    \/ PushAgain /\ UNCHANGED notClean

SpecClean == InitClean /\ [][NextClean]_vars

\* Concurrent pushes calling createRepo.
Init == RepoInit /\ CleanIdle /\ AuthIdle /\ SlugIdle /\ RunIdle /\ PodIdle /\ RecvIdle /\ HostIdle

Next ==
    \/ (\E t \in Threads, p \in Paths : CallCreateRepo(t, p)) /\ UNCHANGED notRepo
    \/ (\E t \in Threads : Lock(t)) /\ UNCHANGED notRepo
    \/ (\E t \in Threads : Stat(t)) /\ UNCHANGED notRepo
    \/ (\E t \in Threads : Mkdir(t)) /\ UNCHANGED notRepo
    \/ (\E t \in Threads : GitInit(t)) /\ UNCHANGED notRepo

Spec == Init /\ [][Next]_vars

\* Concurrent public-key handshakes.
InitAuth == AuthInit /\ CleanIdle /\ RepoIdle /\ SlugIdle /\ RunIdle /\ PodIdle /\ RecvIdle /\ HostIdle

NextAuth ==
    \/ (\E c \in Conns : CbPutMetadata(c)) /\ UNCHANGED notAuth
    \/ (\E c \in Conns : CbPutKey(c)) /\ UNCHANGED notAuth
    \/ (\E c \in Conns : RouteReadKey(c)) /\ UNCHANGED notAuth
    \/ (\E c \in Conns : RunAuthKey(c)) /\ UNCHANGED notAuth
    \/ (\E c \in Conns : CbReturn(c)) /\ UNCHANGED notAuth

SpecAuth == InitAuth /\ [][NextAuth]_vars

\* Builds deriving their storage locations.
InitSlug == SlugInit /\ CleanIdle /\ RepoIdle /\ AuthIdle /\ RunIdle /\ PodIdle /\ RecvIdle /\ HostIdle

NextSlug ==
    \/ ComputeInfo(1) /\ UNCHANGED notSlug
    \/ ComputeInfo(2) /\ UNCHANGED notSlug

SpecSlug == InitSlug /\ [][NextSlug]_vars

\* The pre-receive hook's Run over its standard input.
InitRun == RunInit /\ CleanIdle /\ RepoIdle /\ AuthIdle /\ SlugIdle /\ PodIdle /\ RecvIdle /\ HostIdle

NextRun ==
    \/ RunSetup /\ UNCHANGED notRun
    \/ RunScanLine /\ UNCHANGED notRun
    \/ RunScanEnd /\ UNCHANGED notRun
    \/ RunParse /\ UNCHANGED notRun
    \/ RunReceive /\ UNCHANGED notRun
    \/ RunCheckCommand /\ UNCHANGED notRun
    \/ RunBuildReturns /\ UNCHANGED notRun

SpecRun == InitRun /\ [][NextRun]_vars

\* Builds naming their pods.
InitPod == PodInit /\ CleanIdle /\ RepoIdle /\ AuthIdle /\ SlugIdle /\ RunIdle /\ RecvIdle /\ HostIdle

NextPod ==
    \/ NameSlugBuilderPod /\ UNCHANGED notPod
    \/ NameDockerBuilderPod /\ UNCHANGED notPod
    \/ RetryPush /\ UNCHANGED notPod

SpecPod == InitPod /\ [][NextPod]_vars

\* Concurrent pushes in git.Receive.
InitReceive ==
    /\ RepoInit /\ RecvInit
    /\ CleanIdle /\ AuthIdle /\ SlugIdle /\ RunIdle /\ PodIdle /\ HostIdle

NextReceive ==
    \/ (\E t \in Threads : RcvClean(t)) /\ UNCHANGED notRecv
    \/ (\E t \in Threads : RcvCallCreateRepo(t)) /\ UNCHANGED notRecv
    \/ (\E t \in Threads : RcvLock(t)) /\ UNCHANGED notRecv
    \/ (\E t \in Threads : RcvStat(t)) /\ UNCHANGED notRecv
    \/ (\E t \in Threads : RcvMkdir(t)) /\ UNCHANGED notRecv
    \/ (\E t \in Threads : RcvGitInit(t)) /\ UNCHANGED notRecv
    \/ (\E t \in Threads : RcvHookOpen(t)) /\ UNCHANGED notRecv
    \/ (\E t \in Threads : RcvHookWrite(t)) /\ UNCHANGED notRecv
    \/ (\E t \in Threads : RcvStdinPipe(t)) /\ UNCHANGED notRecv
    \/ (\E t \in Threads : RcvCmdStart(t)) /\ UNCHANGED notRecv
    \/ (\E t \in Threads : RcvCopyChunk(t)) /\ UNCHANGED notRecv
    \/ (\E t \in Threads : RcvCopyReadError(t)) /\ UNCHANGED notRecv
    \/ (\E t \in Threads : RcvCopyEnd(t)) /\ UNCHANGED notRecv
    \/ (\E t \in Threads : RcvWait(t)) /\ UNCHANGED notRecv
    \/ (\E t \in Threads : ProcWriteStderr(t)) /\ UNCHANGED notRecv
    \/ (\E t \in Threads : ProcExit(t)) /\ UNCHANGED notRecv
    \/ (\E t \in Threads : ChannelClose(t)) /\ UNCHANGED notRecv

SpecReceive == InitReceive /\ [][NextReceive]_vars

\* The loading of the host keys.
InitHost ==
    /\ HostInit
    /\ CleanIdle /\ RepoIdle /\ AuthIdle /\ SlugIdle /\ RunIdle /\ PodIdle /\ RecvIdle

NextHost ==
    \/ ParseNextHostKey /\ UNCHANGED notHost
    \/ ParseHostKeysLoopEnd /\ UNCHANGED notHost
    \/ ParseV1HostKey /\ UNCHANGED notHost
    \/ ParseHostKeysReturn /\ UNCHANGED notHost

SpecHost == InitHost /\ [][NextHost]_vars

----------------------------------------------------------------------------
(* The claims *)

\* The callback has let the connection in: it returned with a nil error.
Granted(c) == hsOut[c].kind = "returned" /\ hsOut[c].err = "nil"

\* The presented key is the configured one: same algorithm, same bytes.
IsAuthorizedKey(k) ==
    /\ keyFile # NoKey
    /\ k.type = keyFile.type
    /\ k.blob = keyFile.blob

\* C1: a handshake that has ended has granted a session if and only if the
\* key its connection presented has the algorithm and the bytes of the
\* configured authorized key; with no readable authorized key nobody is
\* granted a session.
C1_GrantedIffAuthorizedKey ==
    \A c \in Conns :
        hsOut[c] # NoOutcome => (Granted(c) <=> IsAuthorizedKey(hsKey[c]))

\* The returns of createRepo, as positions in rets.
RetIdx == 1..Len(rets)

\* Return j is of a call made while the call of return i was still running.
Overlap(i, j) == i < j /\ rets[j].began < i

\* C2: git init --bare runs at most once per path, whatever fails; and when
\* the path did not exist and neither mkdir nor git init has failed, as soon
\* as a caller has returned git init has run exactly once, the first to
\* return got (true, nil) and every other caller got (false, nil).
C2_OneGitInit ==
    \A p \in Paths :
        /\ initRuns[p] <= 1
        /\ (fs0[p] = "absent" /\ ~ioFault[p]) =>
             \A j \in RetIdx :
                 rets[j].path = p =>
                     /\ initRuns[p] = 1
                     /\ rets[j].err = "nil"
                     /\ rets[j].created <=>
                            (\A i \in 1..(j - 1) : rets[i].path # p)

\* C2 witness: two overlapping calls for a path that did not exist have
\* both returned, one with (true, nil) and one with (false, nil).
C2_Witness ==
    \E i, j \in RetIdx :
        /\ Overlap(i, j)
        /\ rets[i].path = rets[j].path
        /\ fs0[rets[i].path] = "absent"
        /\ rets[i].created /\ rets[i].err = "nil"
        /\ ~rets[j].created /\ rets[j].err = "nil"

\* C3: once a call has returned (true, nil) for a path, every call for that
\* path made after this return comes back with (false, nil), having run no
\* mkdir and no git init and having left the directory's marker as it was.
C3_CreateRepoIdempotent ==
    \A i, j \in RetIdx :
        ( /\ i < j
          /\ rets[j].began >= i
          /\ rets[i].path = rets[j].path
          /\ rets[i].created /\ rets[i].err = "nil" ) =>
            /\ ~rets[j].created
            /\ rets[j].err = "nil"
            /\ rets[j].mkdirs = rets[i].mkdirs
            /\ rets[j].inits = rets[i].inits
            /\ rets[j].mark = rets[i].mark

\* C3 witness: a call made after a creating call returned has itself
\* returned, for the same path.
C3_Witness ==
    \E i, j \in RetIdx :
        /\ i < j
        /\ rets[j].began >= i
        /\ rets[i].path = rets[j].path
        /\ rets[i].created /\ rets[i].err = "nil"
        /\ ~rets[j].created /\ rets[j].err = "nil"

\* The name the current push was sanitized to.
LastSanitized == sanitized[Len(sanitized)]

\* The components of the git home.
GitHomeComponents == CleanComponents(Split(GitHome, "/"), <<>>)

\* A cleaned path lies strictly below the git home.
BelowGitHome(path) ==
    /\ Len(path) > Len(GitHomeComponents)
    /\ SubSeq(path, 1, Len(GitHomeComponents)) = GitHomeComponents

\* C4: when Receive has joined the sanitized name to the git home, the name
\* has no ".." path component and no quote character, and the joined path
\* lies strictly below the git home.
C4_NameStaysBelowGitHome ==
    recvPc = "joined" =>
        /\ \A i \in DOMAIN Split(LastSanitized, "/") :
               Split(LastSanitized, "/")[i] # DotDot
        /\ ~Contains(LastSanitized, <<"'">>)
        /\ BelowGitHome(repoPath)

\* C5: when a name that cleanRepoName has returned is sanitized again,
\* cleanRepoName succeeds and returns it unchanged.
C5_CleanRepoNameIdempotent ==
    /\ (Len(sanitized) >= 1 /\ repoName = sanitized[1]) => recvPc # "illegal"
    /\ Len(sanitized) >= 2 => sanitized[2] = sanitized[1]

\* C6: a name that cleanRepoName has returned without an error is not
\* empty.
C6_SanitizedNameNotEmpty ==
    recvPc \in {"cleaned", "joined"} => LastSanitized # <<>>

\* Both builds have their storage locations.
BothComputed == sbInfo[1] # NoInfo /\ sbInfo[2] # NoInfo

\* C7: of two builds whose slug name is their application name, equal
\* (appName, shortSHA) pairs give equal keys and URLs, and different pairs
\* give a different tar key, push key, slug key and a different URL of each.
C7_KeysDeterministicAndDistinct ==
    (BothComputed /\ sbIn[1].slug = sbIn[1].app /\ sbIn[2].slug = sbIn[2].app) =>
        IF sbIn[1].app = sbIn[2].app /\ sbIn[1].sha = sbIn[2].sha
        THEN sbInfo[1] = sbInfo[2]
        ELSE /\ sbInfo[1].tarKey  # sbInfo[2].tarKey
             /\ sbInfo[1].tarURL  # sbInfo[2].tarURL
             /\ sbInfo[1].pushKey # sbInfo[2].pushKey
             /\ sbInfo[1].pushURL # sbInfo[2].pushURL
             /\ sbInfo[1].slugKey # sbInfo[2].slugKey
             /\ sbInfo[1].slugURL # sbInfo[2].slugURL

\* url is "http://<host>:3000/git/" followed by key.
IsURLOf(url, key) ==
    /\ HasSuffix(url, key)
    /\ SubSeq(url, 1, Len(url) - Len(key))
         = <<"h", "t", "t", "p", ":", "/", "/">> \o sbHost
             \o <<":", "3", "0", "0", "0", "/", "g", "i", "t", "/">>

\* key is "home/<app>:git-<sha>/<leaf>", read back from its separators.
IsCommitKey(key, app, sha, leaf) ==
    LET parts == Split(key, "/") IN
    /\ Len(parts) = 3
    /\ parts[1] = <<"h", "o", "m", "e">>
    /\ Split(parts[2], ":") = <<app, <<"g", "i", "t", "-">> \o sha>>
    /\ parts[3] = leaf

\* C8: a computed SlugBuilderInfo has tarKey home/<slugName>/tar, pushKey
\* home/<appName>:git-<shortSHA>/push and slugKey
\* home/<appName>:git-<shortSHA>/slug, and each URL is <endpoint>/git/<key>
\* of its own key; for app demo and short SHA 12345678 the tar URL ends in
\* /git/home/demo/tar and the slug URL in /git/home/demo:git-12345678/slug.
C8_KeyScheme ==
    \A b \in Builds :
        sbInfo[b] # NoInfo =>
            /\ Split(sbInfo[b].tarKey, "/")
                 = << <<"h", "o", "m", "e">>, sbIn[b].slug, <<"t", "a", "r">> >>
            /\ IsCommitKey(sbInfo[b].pushKey, sbIn[b].app, sbIn[b].sha,
                           <<"p", "u", "s", "h">>)
            /\ IsCommitKey(sbInfo[b].slugKey, sbIn[b].app, sbIn[b].sha,
                           <<"s", "l", "u", "g">>)
            /\ IsURLOf(sbInfo[b].tarURL, sbInfo[b].tarKey)
            /\ IsURLOf(sbInfo[b].pushURL, sbInfo[b].pushKey)
            /\ IsURLOf(sbInfo[b].slugURL, sbInfo[b].slugKey)
            /\ (sbIn[b] = [app |-> Demo, slug |-> Demo, sha |-> DemoSHA]) =>
                 /\ HasSuffix(sbInfo[b].tarURL,
                      <<"/", "g", "i", "t", "/", "h", "o", "m", "e", "/",
                        "d", "e", "m", "o", "/", "t", "a", "r">>)
                 /\ HasSuffix(sbInfo[b].slugURL,
                      <<"/", "g", "i", "t", "/", "h", "o", "m", "e", "/",
                        "d", "e", "m", "o", ":", "g", "i", "t", "-",
                        "1", "2", "3", "4", "5", "6", "7", "8", "/",
                        "s", "l", "u", "g">>)

\* C8 witness: the locations of a build whose slug name is not its
\* application name, and those of demo at 12345678, have been computed.
C8_Witness ==
    /\ BothComputed
    /\ sbIn[1].slug # sbIn[1].app
    /\ sbIn[2] = [app |-> Demo, slug |-> Demo, sha |-> DemoSHA]

\* The number of spaces in a line.
RECURSIVE Spaces(_)
Spaces(line) ==
    IF line = <<>> THEN 0
    ELSE (IF Head(line) = " " THEN 1 ELSE 0) + Spaces(Tail(line))

\* parsed holds readLine's result for line lineNo.
LineParsed == lineNo >= 1 /\ runPc # "parse"

\* C9: readLine succeeds exactly on the lines of three space-separated
\* tokens, that is of two spaces, and then returns the three tokens in
\* order: the line is old, a space, new, a space, ref, and no token holds a
\* space. On every other line it returns an error and three empty fields.
C9_ReadLineThreeTokens ==
    LineParsed =>
        IF Spaces(stdin[lineNo]) = 2
        THEN /\ parsed.err = "nil"
             /\ stdin[lineNo] = parsed.old \o <<" ">> \o parsed.new \o <<" ">>
                                  \o parsed.ref
             /\ Spaces(parsed.old) = 0
             /\ Spaces(parsed.new) = 0
             /\ Spaces(parsed.ref) = 0
        ELSE /\ parsed.err # "nil"
             /\ parsed.old = <<>>
             /\ parsed.new = <<>>
             /\ parsed.ref = <<>>

\* C9 witness: a line of three tokens has been parsed into them.
C9_Witness ==
    /\ LineParsed
    /\ parsed = [old |-> <<"a">>, new |-> <<"b">>, ref |-> <<"a">>, err |-> "nil"]

EventIdx == 1..Len(events)

Failures == {"malformed", "receive failed", "build failed"}

\* The error Run returns for a failure.
ErrorOf(op) ==
    CASE op = "malformed" -> "reading STDIN (malformed line)"
      [] op = "receive failed" -> "receive error"
      [] op = "build failed" -> "build error"

\* C10: Run takes the lines in the order of standard input, none skipped;
\* a build that has started ends before anything else happens; a malformed
\* line or a failed build (or receive) is the last thing Run does, and Run
\* has then returned that error; and when a line is examined every build
\* started before it has completed.
C10_InOrderStopAtFirstFailure ==
    /\ \A k, l \in EventIdx : k < l => events[k].line <= events[l].line
    /\ \A k \in EventIdx :
           events[k].op = "examine" =>
               events[k].line = Cardinality({j \in 1..k : events[j].op = "examine"})
    /\ \A k \in EventIdx :
           events[k].op = "build start" =>
               IF k = Len(events)
               THEN runPc = "build" /\ lineNo = events[k].line
               ELSE /\ events[k + 1].op \in {"build done", "build failed"}
                    /\ events[k + 1].line = events[k].line
    /\ \A k \in EventIdx :
           events[k].op \in Failures =>
               /\ k = Len(events)
               /\ runPc = "done"
               /\ runErr = ErrorOf(events[k].op)
    /\ \A k \in EventIdx :
           events[k].op = "examine" =>
               \A j \in 1..(k - 1) :
                   events[j].op = "build start" =>
                       \E m \in (j + 1)..(k - 1) :
                           /\ events[m].op = "build done"
                           /\ events[m].line = events[j].line

\* C10 witness: of three lines on standard input the first was built, the
\* second failed, and Run has returned.
C10_Witness ==
    /\ Len(stdin) = 3
    /\ runPc = "done"
    /\ \E k \in EventIdx : events[k].op = "build done" /\ events[k].line = 1
    /\ events[Len(events)].op \in {"malformed", "build failed"}
    /\ events[Len(events)].line = 2

\* Run has gone past the command check of line n.
PastCheck(n) ==
    \/ n < lineNo
    \/ /\ n = lineNo
       /\ \/ runPc \in {"scan", "build"}
          \/ runPc = "done" /\ runErr \in {"nil", "read error", "build error"}

\* The builds Run has started for line n, as positions in events.
BuildStarts(n) == {k \in EventIdx : events[k].op = "build start" /\ events[k].line = n}

\* C11: a build is started only for a well-formed line, only on a
\* git-receive-pack command and with the line's second token as its
\* revision; once Run is past the command check of a well-formed line it has
\* started exactly one build for the line on a git-receive-pack command, and
\* none on any other command.
C11_BuildOncePerLineOnReceivePack ==
    /\ \A k \in EventIdx :
           events[k].op = "build start" =>
               /\ HasPrefix(sshCmd, GitReceivePack)
               /\ Len(Split(stdin[events[k].line], " ")) = 3
               /\ events[k].rev = Split(stdin[events[k].line], " ")[2]
    /\ \A n \in 1..Len(stdin) :
           PastCheck(n) =>
               Cardinality(BuildStarts(n))
                   = IF HasPrefix(sshCmd, GitReceivePack) THEN 1 ELSE 0

\* C11 witness: on a git-receive-pack command Run has gone through two
\* well-formed lines whose second tokens differ from their first and third,
\* and has built both.
C11_Witness ==
    /\ HasPrefix(sshCmd, GitReceivePack)
    /\ Len(stdin) >= 2
    /\ stdin[1] = <<"a", " ", "b", " ", "a">>
    /\ stdin[2] = <<"b", " ", "a", " ", "b">>
    /\ PastCheck(2)
    /\ \E k, l \in EventIdx :
           /\ events[k] = Event("build done", 1, <<"b">>)
           /\ events[l] = Event("build start", 2, <<"a">>)

\* name is prefix, "-", app, "-", sha, "-" and then a suffix, read back from
\* its characters.
IsPodNameOf(name, prefix, app, sha) ==
    LET n1 == Len(prefix)
        n2 == n1 + 1 + Len(app)
        n3 == n2 + 1 + Len(sha)
    IN /\ Len(name) > n3 + 1
       /\ SubSeq(name, 1, n1) = prefix
       /\ name[n1 + 1] = "-"
       /\ SubSeq(name, n1 + 2, n2) = app
       /\ name[n2 + 1] = "-"
       /\ SubSeq(name, n2 + 2, n3) = sha
       /\ name[n3 + 1] = "-"

\* C12: a computed slug builder pod name is slugbuild-<app>-<sha>- followed
\* by a suffix and a computed docker builder pod name is
\* dockerbuild-<app>-<sha>- followed by a suffix; for app demo at 12345678
\* they start with slugbuild-demo-12345678- and dockerbuild-demo-12345678-.
C12_PodNamePrefixes ==
    /\ podNames["slug"] # <<>> =>
         /\ IsPodNameOf(podNames["slug"],
                        <<"s", "l", "u", "g", "b", "u", "i", "l", "d">>,
                        podApp, podSha)
         /\ (podApp = Demo /\ podSha = DemoSHA) =>
              HasPrefix(podNames["slug"],
                        <<"s", "l", "u", "g", "b", "u", "i", "l", "d", "-",
                          "d", "e", "m", "o", "-",
                          "1", "2", "3", "4", "5", "6", "7", "8", "-">>)
    /\ podNames["docker"] # <<>> =>
         /\ IsPodNameOf(podNames["docker"],
                        <<"d", "o", "c", "k", "e", "r", "b", "u", "i", "l", "d">>,
                        podApp, podSha)
         /\ (podApp = Demo /\ podSha = DemoSHA) =>
              HasPrefix(podNames["docker"],
                        <<"d", "o", "c", "k", "e", "r", "b", "u", "i", "l", "d", "-",
                          "d", "e", "m", "o", "-",
                          "1", "2", "3", "4", "5", "6", "7", "8", "-">>)

\* C12 witness: both pod names of demo at 12345678 have been computed.
C12_Witness ==
    /\ podApp = Demo
    /\ podSha = DemoSHA
    /\ podNames["slug"] # <<>>
    /\ podNames["docker"] # <<>>

\* What push t has done holds the event ev.
Did(t, ev) == \E i \in DOMAIN rvTrace[t] : rvTrace[t][i] = ev

\* Push t has come to cmd.Start() (line 117).
ReachedStart(t) ==
    rvPc[t] \in {"cmd start", "copy", "wait"} \/ Did(t, "started") \/ Did(t, "start failed")

\* The three preparatory steps, as a push that passes them records them.
Prepared == <<"clean ok", "createRepo called", "createRepo ok", "hook ok">>

\* C13: a push that has come to the start of git-shell has before that, in
\* this order, sanitized the name, got a nil error from createRepo and
\* written the hook; a push that failed in one of the three has returned an
\* error and has no subprocess; and a push whose name was illegal has called
\* neither createRepo nor the hook write.
C13_StartOnlyAfterPreparation ==
    \A t \in Threads :
        /\ ReachedStart(t) =>
             /\ Len(rvTrace[t]) >= 4
             /\ SubSeq(rvTrace[t], 1, 4) = Prepared
        /\ (Did(t, "clean failed") \/ Did(t, "createRepo failed") \/ Did(t, "hook failed")) =>
             /\ rvPc[t] = "done"
             /\ rvErr[t] \in {"illegal name", "createRepo", "hook"}
             /\ proc[t] = "none"
             /\ ~Did(t, "started")
        /\ Did(t, "clean failed") =>
             /\ rvTrace[t] = <<"clean failed">>
             /\ crPc[t] = "idle"
             /\ rvPath[t] = NoPath

\* C13 witness: one push has started its subprocess, another has failed to
\* write the hook, both for the same repository.
C13_Witness ==
    \E t, u \in Threads :
        /\ Did(t, "started")
        /\ rvErr[u] = "hook"
        /\ rvPath[u] = rvPath[t]

\* C14: when Receive waits for a subprocess that reads its input to the end
\* and the channel has been closed, the subprocess's input is closed too (so
\* that the subprocess can exit and the wait return).
C14_InputClosedAfterChannelClose ==
    \A t \in Threads :
        ( /\ rvPc[t] = "wait"
          /\ chanClosed[t]
          /\ proc[t] = "running"
          /\ procKind[t] = "reads to end" ) => ~pipeOpen[t]

\* C15: a push that has passed the preparatory steps and returned has
\* returned an error exactly when the start, the copy or the wait failed;
\* the error of each of them holds the captured standard error (looked at
\* where the subprocess had ended, or never begun, when Receive returned:
\* the buffer is then what it was at the return); the subprocess was
\* started at most once; and a successful exit gives no error whatever the
\* captured standard error.
C15_ErrorsCarryStderr ==
    \A t \in Threads :
        (Did(t, "hook ok") /\ rvPc[t] = "done") =>
            /\ rvErr[t] # "nil" <=>
                 \/ Did(t, "pipe failed") \/ Did(t, "start failed")
                 \/ Did(t, "copy failed") \/ Did(t, "read failed")
                 \/ Did(t, "wait failed")
            /\ (Did(t, "start failed") \/ Did(t, "copy failed") \/ Did(t, "wait failed")) =>
                 Contains(rvMsg[t], errbuff[t])
            /\ Cardinality({i \in DOMAIN rvTrace[t] :
                               rvTrace[t][i] \in {"started", "start failed"}}) <= 1
            /\ Did(t, "wait ok") => rvErr[t] = "nil"

\* C16: a push that has come to the start of git-shell has written the hook
\* in this invocation, whether createRepo had created the repository or
\* found it; and a hook file that no push is writing, and no write of which
\* has failed, holds the template rendered with the git home, whichever
\* pushes wrote it.
C16_HookWrittenOnEveryPush ==
    /\ \A t \in Threads : ReachedStart(t) => Did(t, "hook ok")
    /\ \A p \in Paths :
           ( /\ \E t \in Threads : rvPath[t] = p /\ Did(t, "hook ok")
             /\ \A t \in Threads : ~(rvPath[t] = p /\ rvPc[t] = "hook write")
             /\ ~hookFailed[p] ) =>
               /\ hook[p] = PreReceiveHook(GitHome)
               /\ hook[p][6] = "GIT_HOME="
               /\ SubSeq(hook[p], 7, 15) = <<"/", "h", "o", "m", "e", "/", "g", "i", "t">>

\* C16 witness: two pushes to one repository have both come to the start of
\* git-shell, one after createRepo created the repository and one after it
\* found it.
C16_Witness ==
    \E t, u \in Threads :
        /\ rvPath[t] = rvPath[u]
        /\ ReachedStart(t) /\ rvCreated[t]
        /\ ReachedStart(u) /\ ~rvCreated[u]
        /\ hook[rvPath[t]] = PreReceiveHook(GitHome)

\* C17: whoever holds createLock is a push inside createRepo, at its stat,
\* mkdir or git init; a push that is not inside createRepo (before the call,
\* writing the hook, starting git-shell, copying, waiting, or returned with
\* or without an error) does not hold it.
C17_LockOnlyInsideCreateRepo ==
    /\ createLock # NoThread =>
         /\ createLock \in Threads
         /\ rvPc[createLock] = "in createRepo"
         /\ crPc[createLock] \in {"stat", "mkdir", "gitinit"}
    /\ \A t \in Threads :
           rvPc[t] # "in createRepo" => createLock # t

\* C17 witness: a push whose createRepo failed has returned, another push is
\* copying or waiting, and createLock is free.
C17_Witness ==
    \E t, u \in Threads :
        /\ rvErr[t] = "createRepo"
        /\ rvPc[u] \in {"copy", "wait"}
        /\ createLock = NoThread

\* C18: when ParseHostKeys has returned with at least one key parsed, it
\* has returned no error and the keys of exactly the configured types whose
\* file holds a key, the others skipped; when no key parsed at all it has
\* returned an error, not an empty key set.
C18_NoHostKeyIsFatal ==
    hkPc = "done" =>
        IF hostKeys # <<>>
        THEN /\ hkRet = "nil"
             /\ \A ty \in HostKeyTypes :
                    (\E i \in DOMAIN hostKeys : hostKeys[i] = ty)
                        <=> /\ \E j \in DOMAIN hkTypes : hkTypes[j] = ty
                            /\ hkFiles[ty] = "key"
        ELSE hkRet # "nil"

\* C19: every return of createRepo without an error is for a path where a
\* git init --bare has completed successfully (in this process, or before
\* it for a repository that was there at the start); so a call that comes
\* after a failed git init does not return (false, nil).
C19_SuccessMeansInitialized ==
    \A j \in RetIdx :
        rets[j].err = "nil" => inited[rets[j].path]

\* C20: the key AuthKey judges in a handshake is the key the handshake's
\* own connection presented, and what the callback returns to a connection
\* is the result AuthKey has for that connection's key: the context's keys
\* and permissions of other handshakes are not read, and no handshake whose
\* key does not match gets the permission an earlier handshake stored.
C20_HandshakeUsesOwnKey ==
    \A c \in Conns :
        /\ hsPc[c] \in {"authkey", "return", "done"} => hsSeen[c] = hsKey[c]
        /\ (hsOut[c].kind = "returned" /\ hsOut[c].perm = BuilderPerm) =>
               AuthKey(hsKey[c]) = BuilderPerm
        /\ (hsOut[c].kind = "returned" /\ AuthKey(hsKey[c]) = BuilderPerm) =>
               hsOut[c].perm = BuilderPerm

\* C21: when Receive has returned, on any path, a subprocess it had started
\* has been waited for: cmd.Wait() has collected its exit, successful or
\* not.
C21_StartedSubprocessIsWaitedFor ==
    \A t \in Threads :
        (rvPc[t] = "done" /\ Did(t, "started")) =>
            (Did(t, "wait ok") \/ Did(t, "wait failed"))

====
